---------------------------- MODULE Spec2Model ----------------------------
(***************************************************************************)
(* Negotiation / offer state machine of the TradeLink+ API                 *)
(* (src/src/negotiations/negotiations.service.ts) over the relational      *)
(* tables Match, negotiations, offers and transactions                     *)
(* (src/unnamed/part_000).                                                 *)
(*                                                                         *)
(* Rows are records; a table is a sequence whose index is the row id.      *)
(* A timestamp column is modelled by whether it has been stamped.  Only    *)
(* the columns the service reads or the properties below speak of are      *)
(* kept.                                                                   *)
(*                                                                         *)
(* The matching service (src/unnamed/part_016, MatchingService and         *)
(* AiClientService) and MatchesService.suggestMatches                      *)
(* (src/src/matches/matches.service.ts) follow the negotiation handlers.   *)
(***************************************************************************)
EXTENDS Integers, Sequences, FiniteSets, TLC

(***************************************************************************)
(* Bounds of the model.                                                    *)
(***************************************************************************)
MaxCalls == 5

(***************************************************************************)
(* Input domains.                                                          *)
(***************************************************************************)
Matches == {1, 2}
MatchIdInputs == Matches \cup {3}
Users == {"u1", "u2"}
NoUser == "undefined"
UserInputs == Users \cup {NoUser}
NegotiationTermsInputs ==
  {[initialPrice |-> 2, currentPrice |-> 2, quantity |-> 1],
   [initialPrice |-> 2, currentPrice |-> 3, quantity |-> 2]}
\* createDto.expiresAt: not given, or a date that has passed by the time of
\* the requests that follow. The requests for match 1 carry the passed date,
\* the requests for the other matches none.
NoDate == "null"
Passed == "passed"
ExpiresAtInputs == [matchId \in MatchIdInputs |-> IF matchId = 1 THEN Passed ELSE NoDate]
OfferTermsInputs ==
  {[price |-> 2, quantity |-> 2],
   [price |-> 3, quantity |-> 1]}

NegotiationStatus == {"ACTIVE", "ACCEPTED", "REJECTED", "EXPIRED", "CANCELLED"}
OfferStatus == {"PENDING", "ACCEPTED", "REJECTED", "COUNTERED", "EXPIRED"}
MatchStatus ==
  {"SUGGESTED", "CONTACTED", "NEGOTIATING", "CONTRACT_SIGNED", "COMPLETED", "CANCELLED"}

VARIABLES
  matches,       \* table "Match": id -> row
  negotiations,  \* table "negotiations": sequence of rows, id = index
  offers,        \* table "offers": sequence of rows, id = index
  transactions,  \* table "transactions": sequence of rows, id = index
  result,        \* what the last request returned to its caller
  calls,         \* number of requests received so far
  pc,            \* interleaved requests: position of each
  local,         \* interleaved requests: local variables
  buyer,         \* table "buyers": the row of the one buyer, id 1
  listings,      \* table "listings": sequence of rows, id = index
  matchRun       \* the matching request: its inputs, scores and response

vars == <<matches, negotiations, offers, transactions, result, calls, pc, local,
          buyer, listings, matchRun>>
rows == <<matches, negotiations, offers, transactions>>
matching == <<buyer, listings, matchRun>>

(***************************************************************************)
(* Table lookups (prisma findUnique / findFirst).                          *)
(***************************************************************************)
MatchExists(id) == id \in DOMAIN matches
NegotiationExists(id) == id \in 1..Len(negotiations)
OfferExists(id) == id \in 1..Len(offers)

\* variant: the lookup filters on a status no negotiation ever has
ExistingActive_WrongStatus(matchId) ==
  \E i \in 1..Len(negotiations) :
    /\ negotiations[i].matchId = matchId
    /\ negotiations[i].status = "PENDING"

\* variant: the lookup leaves out the status filter
ExistingActive_AnyStatus(matchId) ==
  \E i \in 1..Len(negotiations) : negotiations[i].matchId = matchId

\* negotiation.findFirst({ where: { matchId, status: ACTIVE } })
ExistingActive(matchId) ==
  \E i \in 1..Len(negotiations) :
    /\ negotiations[i].matchId = matchId
    /\ negotiations[i].status = "ACTIVE"

\* transaction.findUnique({ where: { negotiationId } }) over a table value
TransactionsOf(txs, negotiationId) ==
  {t \in 1..Len(txs) : txs[t].negotiationId = negotiationId}

\* variant: the table has no unique index on negotiationId
UniqueNegotiationIdOk_NoIndex(txs, negotiationId) == TRUE

\* unique index transactions_negotiationId_key: an insert is refused when a
\* row with the same negotiationId is already there
UniqueNegotiationIdOk(txs, negotiationId) ==
  TransactionsOf(txs, negotiationId) = {}

(***************************************************************************)
(* The response handed back to the caller.                                 *)
(***************************************************************************)
Response(op, id, outcome, message) ==
  [op |-> op, id |-> id, outcome |-> outcome, message |-> message]

Procs == {1, 2}
Idle == [p \in Procs |-> "idle"]
NoLocal == [id |-> 0, userId |-> NoUser, matchId |-> 0, quantity |-> 0,
            currentPrice |-> 0, found |-> FALSE]

\* no matching request: the negotiation endpoints never read these
NoProfile == [country |-> <<>>]
NoRun == [phase |-> "idle"]

\* a request is received while no interleaved request is in flight
Received ==
  pc = Idle /\ calls < MaxCalls /\ calls' = calls + 1 /\ UNCHANGED matching

Init ==
  /\ matches = [m \in Matches |->
                 [status |-> "SUGGESTED", negotiationStartedAt |-> FALSE,
                  contractSignedAt |-> FALSE]]
  /\ negotiations = <<>>
  /\ offers = <<>>
  /\ transactions = <<>>
  /\ result = [op |-> "none", id |-> 0, outcome |-> "ok", message |-> ""]
  /\ calls = 0
  /\ pc = Idle
  /\ local = [p \in Procs |-> NoLocal]
  /\ buyer = NoProfile
  /\ listings = <<>>
  /\ matchRun = NoRun

(***************************************************************************)
(* NegotiationsService.create                                              *)
(***************************************************************************)
\* const initiatedBy = createDto.initiatedBy || userId
InitiatedBy(dtoInitiatedBy, userId) ==
  IF dtoInitiatedBy # NoUser THEN dtoInitiatedBy ELSE userId

\* the row written by negotiation.create; status defaults to ACTIVE
NewNegotiation(matchId, initialPrice, currentPrice, quantity, expiresAt, dtoInitiatedBy, userId) ==
  [matchId |-> matchId,
   status |-> "ACTIVE",
   initialPrice |-> initialPrice,
   currentPrice |-> currentPrice,
   quantity |-> quantity,
   expiresAt |-> expiresAt,
   lastUpdatedBy |-> IF userId # NoUser THEN userId
                     ELSE InitiatedBy(dtoInitiatedBy, userId)]

\* match.update({ status: 'NEGOTIATING', negotiationStartedAt: new Date() })
MatchNegotiating(m) ==
  [m EXCEPT !.status = "NEGOTIATING", !.negotiationStartedAt = TRUE]

Create(matchId, initialPrice, currentPrice, quantity, expiresAt, dtoInitiatedBy, userId) ==
  /\ Received
  /\ UNCHANGED <<offers, transactions, pc, local>>
  /\ IF ~MatchExists(matchId)
     THEN /\ result' = Response("create", matchId, "NotFound", "Match not found")
          /\ UNCHANGED <<matches, negotiations>>
     ELSE IF ExistingActive(matchId)
     THEN /\ result' = Response("create", matchId, "BadRequest",
                                "Active negotiation already exists for this match")
          /\ UNCHANGED <<matches, negotiations>>
     ELSE /\ matches' = [matches EXCEPT ![matchId] = MatchNegotiating(@)]
          /\ IF InitiatedBy(dtoInitiatedBy, userId) = NoUser
             THEN /\ result' = Response("create", matchId, "BadRequest",
                                        "initiatedBy is required")
                  /\ UNCHANGED negotiations
             ELSE /\ negotiations' =
                       Append(negotiations,
                              NewNegotiation(matchId, initialPrice, currentPrice,
                                             quantity, expiresAt, dtoInitiatedBy,
                                             userId))
                  /\ result' = Response("create", matchId, "ok", "")

(***************************************************************************)
(* NegotiationsService.createOffer                                         *)
(***************************************************************************)
\* variant: the status check is missing
IsActive_Unchecked(negotiation) == TRUE

\* variant: only a REJECTED negotiation is refused
IsActive_NotRejected(negotiation) == negotiation.status # "REJECTED"

\* variant: a negotiation past its expiresAt no longer counts as active
IsActive_Unexpired(negotiation) ==
  negotiation.status = "ACTIVE" /\ negotiation.expiresAt # Passed

\* negotiation.status !== NegotiationStatus.ACTIVE  (negated)
IsActive(negotiation) == negotiation.status = "ACTIVE"

\* variant: the update leaves out the quantity
OfferTerms_NoQuantity(negotiation, price, quantity, offeredBy) ==
  [negotiation EXCEPT !.currentPrice = price,
                      !.lastUpdatedBy = offeredBy]

\* negotiation.update({ currentPrice, quantity, lastUpdatedBy })
OfferTerms(negotiation, price, quantity, offeredBy) ==
  [negotiation EXCEPT !.currentPrice = price,
                      !.quantity = quantity,
                      !.lastUpdatedBy = offeredBy]

\* the row written by offer.create; status defaults to PENDING
NewOffer(negotiationId, price, quantity, offeredBy) ==
  [negotiationId |-> negotiationId,
   offeredBy |-> offeredBy,
   price |-> price,
   quantity |-> quantity,
   status |-> "PENDING"]

CreateOffer(negotiationId, price, quantity, offeredBy) ==
  /\ Received
  /\ UNCHANGED <<matches, transactions, pc, local>>
  /\ IF ~NegotiationExists(negotiationId)
     THEN /\ result' = Response("createOffer", negotiationId, "NotFound",
                                "Negotiation not found")
          /\ UNCHANGED <<negotiations, offers>>
     ELSE IF ~IsActive(negotiations[negotiationId])
     THEN /\ result' = Response("createOffer", negotiationId, "BadRequest",
                                "Negotiation is not active")
          /\ UNCHANGED <<negotiations, offers>>
     ELSE /\ negotiations' =
               [negotiations EXCEPT ![negotiationId] =
                  OfferTerms(@, price, quantity, offeredBy)]
          /\ offers' = Append(offers, NewOffer(negotiationId, price, quantity, offeredBy))
          /\ result' = Response("createOffer", negotiationId, "ok", "")

(***************************************************************************)
(* NegotiationsService.respondToOffer                                      *)
(***************************************************************************)
\* variant: only an ACCEPTED offer is refused a second response
IsPending_OnlyAcceptedFinal(offer) == offer.status # "ACCEPTED"

\* offer.status !== OfferStatus.PENDING  (negated)
IsPending(offer) == offer.status = "PENDING"

\* variant: the negotiation is accepted only when no response is ACCEPTED
AcceptsNegotiation_Countered(status) == status = "COUNTERED"

\* respondDto.status === OfferStatus.ACCEPTED
AcceptsNegotiation(status) == status = "ACCEPTED"

\* negotiation.update({ status: ACCEPTED, acceptedAt, lastUpdatedBy: userId })
\* and negotiation.update({ status: REJECTED, rejectedAt, lastUpdatedBy })
NegotiationAccepted(negotiation, userId) ==
  [negotiation EXCEPT !.status = "ACCEPTED",
                      !.lastUpdatedBy = userId]

RespondToOffer(offerId, status, userId) ==
  /\ Received
  /\ UNCHANGED <<matches, transactions, pc, local>>
  /\ IF ~OfferExists(offerId)
     THEN /\ result' = Response("respondToOffer", offerId, "NotFound", "Offer not found")
          /\ UNCHANGED <<negotiations, offers>>
     ELSE IF ~IsPending(offers[offerId])
     THEN /\ result' = Response("respondToOffer", offerId, "BadRequest",
                                "Offer has already been responded to")
          /\ UNCHANGED <<negotiations, offers>>
     ELSE /\ offers' = [offers EXCEPT ![offerId].status = status]
          /\ IF AcceptsNegotiation(status)
             THEN negotiations' =
                    [negotiations EXCEPT ![offers[offerId].negotiationId] =
                       NegotiationAccepted(@, userId)]
             ELSE UNCHANGED negotiations
          /\ result' = Response("respondToOffer", offerId, "ok", "")

(***************************************************************************)
(* NegotiationsService.acceptNegotiation                                   *)
(***************************************************************************)
\* variant: totalValue is the unit price, not price times quantity
NewTransaction_UnitPrice(negotiationId, matchId, quantity, currentPrice) ==
  [matchId |-> matchId,
   negotiationId |-> negotiationId,
   quantity |-> quantity,
   agreedPrice |-> currentPrice,
   totalValue |-> currentPrice,
   paymentStatus |-> "pending",
   shipmentStatus |-> "pending"]

\* the row written by transaction.create
NewTransaction(negotiationId, matchId, quantity, currentPrice) ==
  [matchId |-> matchId,
   negotiationId |-> negotiationId,
   quantity |-> quantity,
   agreedPrice |-> currentPrice,
   totalValue |-> currentPrice * quantity,
   paymentStatus |-> "pending",
   shipmentStatus |-> "pending"]

\* match.update({ status: 'CONTRACT_SIGNED', contractSignedAt: new Date() })
MatchContractSigned(m) ==
  [m EXCEPT !.status = "CONTRACT_SIGNED", !.contractSignedAt = TRUE]

AcceptNegotiation(id, userId) ==
  /\ Received
  /\ UNCHANGED <<offers, pc, local>>
  /\ IF ~NegotiationExists(id)
     THEN /\ result' = Response("acceptNegotiation", id, "NotFound",
                                "Negotiation not found")
          /\ UNCHANGED <<matches, negotiations, transactions>>
     ELSE IF ~IsActive(negotiations[id])
     THEN /\ result' = Response("acceptNegotiation", id, "BadRequest",
                                "Negotiation is not active")
          /\ UNCHANGED <<matches, negotiations, transactions>>
     ELSE /\ transactions' =
               IF TransactionsOf(transactions, id) = {}
               THEN Append(transactions,
                           NewTransaction(id, negotiations[id].matchId,
                                          negotiations[id].quantity,
                                          negotiations[id].currentPrice))
               ELSE transactions
          /\ negotiations' = [negotiations EXCEPT ![id] = NegotiationAccepted(@, userId)]
          /\ matches' = [matches EXCEPT ![negotiations[id].matchId] =
                           MatchContractSigned(@)]
          /\ result' = Response("acceptNegotiation", id, "ok", "")

(***************************************************************************)
(* NegotiationsService.rejectNegotiation                                   *)
(***************************************************************************)
\* variant: the negotiation is marked CANCELLED
NegotiationRejected_Cancelled(negotiation, userId) ==
  [negotiation EXCEPT !.status = "CANCELLED",
                      !.lastUpdatedBy = userId]

\* negotiation.update({ status: REJECTED, rejectedAt, lastUpdatedBy })
NegotiationRejected(negotiation, userId) ==
  [negotiation EXCEPT !.status = "REJECTED",
                      !.lastUpdatedBy = userId]

RejectNegotiation(id, userId) ==
  /\ Received
  /\ UNCHANGED <<matches, offers, transactions, pc, local>>
  /\ IF ~NegotiationExists(id)
     THEN /\ result' = Response("rejectNegotiation", id, "NotFound",
                                "Negotiation not found")
          /\ UNCHANGED negotiations
     ELSE /\ negotiations' = [negotiations EXCEPT ![id] = NegotiationRejected(@, userId)]
          /\ result' = Response("rejectNegotiation", id, "ok", "")

(***************************************************************************)
(* Requests served one at a time.                                          *)
(***************************************************************************)
NegotiationIdInputs == 1..(Len(negotiations) + 1)
OfferIdInputs == 1..(Len(offers) + 1)

DoCreate ==
  \E matchId \in MatchIdInputs, dto \in NegotiationTermsInputs,
     dtoInitiatedBy \in UserInputs, userId \in UserInputs :
    Create(matchId, dto.initialPrice, dto.currentPrice, dto.quantity,
           ExpiresAtInputs[matchId], dtoInitiatedBy, userId)

DoCreateOffer ==
  \E negotiationId \in NegotiationIdInputs, dto \in OfferTermsInputs,
     offeredBy \in Users :
    CreateOffer(negotiationId, dto.price, dto.quantity, offeredBy)

DoRespondToOffer ==
  \E offerId \in OfferIdInputs, status \in OfferStatus, userId \in Users :
    RespondToOffer(offerId, status, userId)

DoAcceptNegotiation ==
  \E id \in NegotiationIdInputs, userId \in Users : AcceptNegotiation(id, userId)

DoRejectNegotiation ==
  \E id \in NegotiationIdInputs, userId \in Users : RejectNegotiation(id, userId)

Next ==
  \/ DoCreate
  \/ DoCreateOffer
  \/ DoRespondToOffer
  \/ DoAcceptNegotiation
  \/ DoRejectNegotiation

Spec == Init /\ [][Next]_vars

(***************************************************************************)
(* acceptNegotiation with its awaited database calls as separate steps, so *)
(* that two requests interleave.  A request keeps what it read in local.   *)
(***************************************************************************)
\* a request is received while other requests may be in flight
ReceivedBy(p) ==
  pc[p] = "idle" /\ calls < MaxCalls /\ calls' = calls + 1 /\ UNCHANGED matching

\* negotiation.findUnique and the two checks that follow it
AcceptRead(p, id, userId) ==
  /\ ReceivedBy(p)
  /\ UNCHANGED rows
  /\ IF ~NegotiationExists(id)
     THEN /\ result' = Response("acceptNegotiation", id, "NotFound",
                                "Negotiation not found")
          /\ UNCHANGED <<pc, local>>
     ELSE IF ~IsActive(negotiations[id])
     THEN /\ result' = Response("acceptNegotiation", id, "BadRequest",
                                "Negotiation is not active")
          /\ UNCHANGED <<pc, local>>
     ELSE /\ local' = [local EXCEPT ![p] =
                         [id |-> id, userId |-> userId,
                          matchId |-> negotiations[id].matchId,
                          quantity |-> negotiations[id].quantity,
                          currentPrice |-> negotiations[id].currentPrice,
                          found |-> FALSE]]
          /\ pc' = [pc EXCEPT ![p] = "findTransaction"]
          /\ UNCHANGED result

\* variant: the look-up by negotiationId never finds a row
AcceptFindTransaction_NeverFound(p) ==
  /\ pc[p] = "findTransaction"
  /\ local' = [local EXCEPT ![p].found = FALSE]
  /\ pc' = [pc EXCEPT ![p] = "createTransaction"]
  /\ UNCHANGED <<rows, result, calls, matching>>

\* transaction.findUnique({ where: { negotiationId: id } })
AcceptFindTransaction(p) ==
  /\ pc[p] = "findTransaction"
  /\ local' = [local EXCEPT ![p].found =
                 TransactionsOf(transactions, local[p].id) # {}]
  /\ pc' = [pc EXCEPT ![p] =
              IF TransactionsOf(transactions, local[p].id) # {}
              THEN "updateNegotiation" ELSE "createTransaction"]
  /\ UNCHANGED <<rows, result, calls, matching>>

\* transaction.create; the unique index refuses a second row
AcceptCreateTransaction(p) ==
  /\ pc[p] = "createTransaction"
  /\ UNCHANGED <<matches, negotiations, offers, calls, matching>>
  /\ IF UniqueNegotiationIdOk(transactions, local[p].id)
     THEN /\ transactions' =
               Append(transactions,
                      NewTransaction(local[p].id, local[p].matchId,
                                     local[p].quantity, local[p].currentPrice))
          /\ pc' = [pc EXCEPT ![p] = "updateNegotiation"]
          /\ UNCHANGED <<result, local>>
     ELSE /\ result' = Response("acceptNegotiation", local[p].id, "UniqueViolation",
                                "Unique constraint failed")
          /\ pc' = [pc EXCEPT ![p] = "idle"]
          /\ local' = [local EXCEPT ![p] = NoLocal]
          /\ UNCHANGED transactions

\* negotiation.update({ status: ACCEPTED, ... })
AcceptUpdateNegotiation(p) ==
  /\ pc[p] = "updateNegotiation"
  /\ negotiations' = [negotiations EXCEPT ![local[p].id] =
                        NegotiationAccepted(@, local[p].userId)]
  /\ pc' = [pc EXCEPT ![p] = "updateMatch"]
  /\ UNCHANGED <<matches, offers, transactions, result, calls, local, matching>>

\* match.update({ status: 'CONTRACT_SIGNED', ... }) and the return
AcceptUpdateMatch(p) ==
  /\ pc[p] = "updateMatch"
  /\ matches' = [matches EXCEPT ![local[p].matchId] = MatchContractSigned(@)]
  /\ result' = Response("acceptNegotiation", local[p].id, "ok", "")
  /\ pc' = [pc EXCEPT ![p] = "idle"]
  /\ local' = [local EXCEPT ![p] = NoLocal]
  /\ UNCHANGED <<negotiations, offers, transactions, calls, matching>>

DoAcceptRead ==
  \E p \in Procs, id \in NegotiationIdInputs, userId \in Users :
    AcceptRead(p, id, userId)
DoAcceptFindTransaction == \E p \in Procs : AcceptFindTransaction(p)
DoAcceptCreateTransaction == \E p \in Procs : AcceptCreateTransaction(p)
DoAcceptUpdateNegotiation == \E p \in Procs : AcceptUpdateNegotiation(p)
DoAcceptUpdateMatch == \E p \in Procs : AcceptUpdateMatch(p)

NextConc ==
  \/ DoCreate
  \/ DoCreateOffer
  \/ DoRejectNegotiation
  \/ DoAcceptRead
  \/ DoAcceptFindTransaction
  \/ DoAcceptCreateTransaction
  \/ DoAcceptUpdateNegotiation
  \/ DoAcceptUpdateMatch

SpecConc == Init /\ [][NextConc]_vars

(***************************************************************************)
(* An acceptNegotiation attempt that stops half-way, and its retry.        *)
(***************************************************************************)
\* negotiation.update rejects (or the process stops) after transaction.create
\* has committed: nothing wraps the two writes, so the transaction row stays
\* and the negotiation is still ACTIVE; the caller gets a server error
AcceptStop(p) ==
  /\ pc[p] = "updateNegotiation"
  /\ ~local[p].found
  /\ result' = Response("acceptNegotiation", local[p].id, "InternalError",
                        "Internal server error")
  /\ pc' = [pc EXCEPT ![p] = "idle"]
  /\ local' = [local EXCEPT ![p] = NoLocal]
  /\ UNCHANGED <<rows, calls, matching>>

DoAcceptStop == \E p \in Procs : AcceptStop(p)

NextRetry ==
  \/ DoCreate
  \/ DoCreateOffer
  \/ DoAcceptRead
  \/ DoAcceptFindTransaction
  \/ DoAcceptCreateTransaction
  \/ DoAcceptUpdateNegotiation
  \/ DoAcceptUpdateMatch
  \/ DoAcceptStop

SpecRetry == Init /\ [][NextRetry]_vars

(***************************************************************************)
(* create with its awaited database calls as separate steps, so that two   *)
(* requests interleave.                                                    *)
(***************************************************************************)
\* match.findUnique({ where: { id: createDto.matchId } })
CreateFindMatch(p, matchId, initialPrice, currentPrice, quantity, expiresAt, dtoInitiatedBy, userId) ==
  /\ ReceivedBy(p)
  /\ UNCHANGED rows
  /\ IF ~MatchExists(matchId)
     THEN /\ result' = Response("create", matchId, "NotFound", "Match not found")
          /\ UNCHANGED <<pc, local>>
     ELSE /\ local' = [local EXCEPT ![p] =
                         [matchId |-> matchId, initialPrice |-> initialPrice,
                          currentPrice |-> currentPrice, quantity |-> quantity,
                          expiresAt |-> expiresAt,
                          dtoInitiatedBy |-> dtoInitiatedBy, userId |-> userId]]
          /\ pc' = [pc EXCEPT ![p] = "findExistingNegotiation"]
          /\ UNCHANGED result

\* negotiation.findFirst({ where: { matchId, status: ACTIVE } })
CreateFindExisting(p) ==
  /\ pc[p] = "findExistingNegotiation"
  /\ UNCHANGED <<rows, calls, matching>>
  /\ IF ExistingActive(local[p].matchId)
     THEN /\ result' = Response("create", local[p].matchId, "BadRequest",
                                "Active negotiation already exists for this match")
          /\ pc' = [pc EXCEPT ![p] = "idle"]
          /\ local' = [local EXCEPT ![p] = NoLocal]
     ELSE /\ pc' = [pc EXCEPT ![p] = "startNegotiating"]
          /\ UNCHANGED <<result, local>>

\* match.update({ status: 'NEGOTIATING', ... }) and the initiatedBy check
CreateUpdateMatch(p) ==
  /\ pc[p] = "startNegotiating"
  /\ matches' = [matches EXCEPT ![local[p].matchId] = MatchNegotiating(@)]
  /\ UNCHANGED <<negotiations, offers, transactions, calls, matching>>
  /\ IF InitiatedBy(local[p].dtoInitiatedBy, local[p].userId) = NoUser
     THEN /\ result' = Response("create", local[p].matchId, "BadRequest",
                                "initiatedBy is required")
          /\ pc' = [pc EXCEPT ![p] = "idle"]
          /\ local' = [local EXCEPT ![p] = NoLocal]
     ELSE /\ pc' = [pc EXCEPT ![p] = "createNegotiation"]
          /\ UNCHANGED <<result, local>>

\* negotiation.create and the return
CreateInsert(p) ==
  /\ pc[p] = "createNegotiation"
  /\ negotiations' =
       Append(negotiations,
              NewNegotiation(local[p].matchId, local[p].initialPrice,
                             local[p].currentPrice, local[p].quantity,
                             local[p].expiresAt,
                             local[p].dtoInitiatedBy, local[p].userId))
  /\ result' = Response("create", local[p].matchId, "ok", "")
  /\ pc' = [pc EXCEPT ![p] = "idle"]
  /\ local' = [local EXCEPT ![p] = NoLocal]
  /\ UNCHANGED <<matches, offers, transactions, calls, matching>>

\* who asks: nobody named, the authenticated user, or the dto's initiator
InitiatorInputs ==
  {[dtoInitiatedBy |-> NoUser, userId |-> NoUser],
   [dtoInitiatedBy |-> NoUser, userId |-> "u1"],
   [dtoInitiatedBy |-> "u2", userId |-> NoUser]}

DoCreateFindMatch ==
  \E p \in Procs, matchId \in MatchIdInputs, dto \in NegotiationTermsInputs,
     who \in InitiatorInputs :
    CreateFindMatch(p, matchId, dto.initialPrice, dto.currentPrice, dto.quantity,
                    ExpiresAtInputs[matchId], who.dtoInitiatedBy, who.userId)
DoCreateFindExisting == \E p \in Procs : CreateFindExisting(p)
DoCreateUpdateMatch == \E p \in Procs : CreateUpdateMatch(p)
DoCreateInsert == \E p \in Procs : CreateInsert(p)

NextConcCreate ==
  \/ DoCreateFindMatch
  \/ DoCreateFindExisting
  \/ DoCreateUpdateMatch
  \/ DoCreateInsert

SpecConcCreate == Init /\ [][NextConcCreate]_vars

(***************************************************************************)
(* Strings of the matching service.  A string is the sequence of its       *)
(* characters, so that toLowerCase, includes and the volume pattern are    *)
(* computed character by character.                                        *)
(***************************************************************************)
UpperCase ==
  <<"A", "B", "C", "D", "E", "F", "G", "H", "I", "J",
    "K", "L", "M", "N", "O", "P", "Q", "R", "S", "T",
    "U", "V", "W", "X", "Y", "Z">>
LowerCase ==
  <<"a", "b", "c", "d", "e", "f", "g", "h", "i", "j",
    "k", "l", "m", "n", "o", "p", "q", "r", "s", "t",
    "u", "v", "w", "x", "y", "z">>
Digits == <<"0", "1", "2", "3", "4", "5", "6", "7", "8", "9">>

\* the lower-case letter of each upper-case letter
LowerCaseOf ==
  [c \in {UpperCase[i] : i \in 1..Len(UpperCase)} |->
     LowerCase[CHOOSE i \in 1..Len(UpperCase) : UpperCase[i] = c]]

toLowerCaseChar(c) == IF c \in DOMAIN LowerCaseOf THEN LowerCaseOf[c] ELSE c

\* String.prototype.toLowerCase
toLowerCase(s) == [i \in 1..Len(s) |-> toLowerCaseChar(s[i])]

\* String.prototype.includes
includes(s, sub) ==
  \E i \in 0..(Len(s) - Len(sub)) : SubSeq(s, i + 1, i + Len(sub)) = sub

Empty == <<>>
GH == <<"G", "H">>
US == <<"U", "S">>
Cocoa == <<"C", "o", "c", "o", "a">>
COCOA == <<"C", "O", "C", "O", "A">>
COCO == <<"C", "O", "C", "O">>
Maize == <<"M", "a", "i", "z", "e">>
PREMIUM == <<"P", "R", "E", "M", "I", "U", "M">>
STANDARD == <<"S", "T", "A", "N", "D", "A", "R", "D">>
OrganicStandard ==
  <<"O", "r", "g", "a", "n", "i", "c", " ", "S", "t",
    "a", "n", "d", "a", "r", "d">>
Std == <<"S", "t", "d">>
premium == <<"p", "r", "e", "m", "i", "u", "m">>
Ton == <<"t", "o", "n">>
Tons == <<"t", "o", "n", "s">>
Kg == <<"k", "g">>
TenTonsPerMonth ==
  <<"1", "0", " ", "t", "o", "n", "s", "/", "m", "o",
    "n", "t", "h">>
TwoAndAHalfTONS == <<"2", ".", "5", " ", "T", "O", "N", "S">>
TenTonnes == <<"1", "0", " ", "t", "o", "n", "n", "e", "s">>
TenKg == <<"1", "0", "k", "g">>
TenBags == <<"1", "0", " ", "b", "a", "g", "s">>
ZeroTons == <<"0", " ", "t", "o", "n", "s">>

(***************************************************************************)
(* MatchingService.parseVolume: the first match of                         *)
(*   /(\d+(?:\.\d+)?)\s*(tons?|kg|tonnes?)/i                               *)
(* A match that starts at i takes the whole run of digits at i, the        *)
(* fraction when a dot and digits follow, the whole run of blanks, and     *)
(* then needs "ton" or "kg" in either case: a shorter run of digits or of  *)
(* blanks is followed by a digit or a blank, where no unit starts.  The    *)
(* alternative tons? is tried before tonnes?, so "tonnes" is matched as    *)
(* "ton".                                                                  *)
(***************************************************************************)
\* the value of each digit
ValueOf == [c \in {Digits[d] : d \in 1..Len(Digits)} |->
             (CHOOSE d \in 1..Len(Digits) : Digits[d] = c) - 1]
IsDigit(c) == c \in DOMAIN ValueOf
DigitValue(c) == ValueOf[c]
IsBlank(c) == c = " "

\* the index after the run of digits that starts at i
RECURSIVE DigitsEnd(_, _)
DigitsEnd(s, i) ==
  IF i <= Len(s) /\ IsDigit(s[i]) THEN DigitsEnd(s, i + 1) ELSE i

\* the index after the run of blanks that starts at i
RECURSIVE BlanksEnd(_, _)
BlanksEnd(s, i) ==
  IF i <= Len(s) /\ IsBlank(s[i]) THEN BlanksEnd(s, i + 1) ELSE i

\* the number written by the digits s[i], ..., s[j - 1]
RECURSIVE DigitsValue(_, _, _)
DigitsValue(s, i, j) ==
  IF j <= i THEN 0 ELSE 10 * DigitsValue(s, i, j - 1) + DigitValue(s[j - 1])

RECURSIVE PowerOfTen(_)
PowerOfTen(n) == IF n = 0 THEN 1 ELSE 10 * PowerOfTen(n - 1)

\* the word w stands at index i of s, in either case (flag i)
WordAt(s, i, w) ==
  /\ i + Len(w) - 1 <= Len(s)
  /\ toLowerCase(SubSeq(s, i, i + Len(w) - 1)) = w

IntegerEnd(s, i) == DigitsEnd(s, i)
HasFraction(s, i) ==
  LET e == IntegerEnd(s, i) IN
    e <= Len(s) /\ s[e] = "." /\ DigitsEnd(s, e + 1) > e + 1
NumberEnd(s, i) ==
  IF HasFraction(s, i) THEN DigitsEnd(s, IntegerEnd(s, i) + 1) ELSE IntegerEnd(s, i)
UnitStart(s, i) == BlanksEnd(s, NumberEnd(s, i))

\* the pattern matches s from index i on
MatchesAt(s, i) ==
  /\ IntegerEnd(s, i) > i
  /\ WordAt(s, UnitStart(s, i), Ton) \/ WordAt(s, UnitStart(s, i), Kg)

\* match[2]: "ton" with the s that may follow it, or "kg", as written
MatchedUnit(s, i) ==
  LET u == UnitStart(s, i) IN
    IF WordAt(s, u, Ton)
    THEN IF WordAt(s, u, Tons) THEN SubSeq(s, u, u + 3) ELSE SubSeq(s, u, u + 2)
    ELSE SubSeq(s, u, u + 1)

\* parseFloat(match[1]) as the fraction num / den
MatchedAmount(s, i) ==
  LET e == IntegerEnd(s, i)
      f == NumberEnd(s, i)
  IN IF HasFraction(s, i)
     THEN [num |-> DigitsValue(s, i, e) * PowerOfTen(f - (e + 1))
                     + DigitsValue(s, e + 1, f),
           den |-> PowerOfTen(f - (e + 1))]
     ELSE [num |-> DigitsValue(s, i, e), den |-> 1]

\* replace(/s$/, '')
StripFinalS(u) ==
  IF Len(u) > 0 /\ u[Len(u)] = "s" THEN SubSeq(u, 1, Len(u) - 1) ELSE u

NoVolume == [matched |-> FALSE, amount |-> [num |-> 0, den |-> 1], unit |-> Empty]

parseVolume(volumeStr) ==
  LET starts == {i \in 1..Len(volumeStr) : MatchesAt(volumeStr, i)} IN
    IF starts = {} THEN NoVolume
    ELSE LET i == CHOOSE k \in starts : \A j \in starts : k <= j IN
           [matched |-> TRUE,
            amount |-> MatchedAmount(volumeStr, i),
            unit |-> StripFinalS(toLowerCase(MatchedUnit(volumeStr, i)))]

(***************************************************************************)
(* MatchingService.calculateCompatibilityScore.  A listing row carries     *)
(* verified for listing.farmer?.user?.verified and availableInDays for     *)
(* the days from now to availableFrom.                                     *)
(***************************************************************************)
maxScore == 100

Min(a, b) == IF a <= b THEN a ELSE b
Max(a, b) == IF a >= b THEN a ELSE b

\* buyer.country && buyer.country !== 'GH'
InternationalBuyer(b) == b.country # Empty /\ b.country # GH

\* 1. crop type: an exact match in either case, else the listing's crop
\* containing a crop the buyer seeks
cropScore(b, l) ==
  IF \E c \in 1..Len(b.seekingCrops) :
       toLowerCase(b.seekingCrops[c]) = toLowerCase(l.cropType)
  THEN 30
  ELSE IF \E c \in 1..Len(b.seekingCrops) :
            includes(toLowerCase(l.cropType), toLowerCase(b.seekingCrops[c]))
       THEN 15
       ELSE 0

\* 2. quality grade: a standard containing the grade or contained in it
qualityScore(b, l) ==
  IF \E q \in 1..Len(b.qualityStandards) :
       \/ includes(toLowerCase(b.qualityStandards[q]), toLowerCase(l.qualityGrade))
       \/ includes(toLowerCase(l.qualityGrade), toLowerCase(b.qualityStandards[q]))
  THEN 25
  ELSE IF /\ \E q \in 1..Len(b.qualityStandards) :
               includes(toLowerCase(b.qualityStandards[q]), premium)
          /\ l.qualityGrade = PREMIUM
       THEN 20
       ELSE 0

\* variant: the band of 20 points leaves its lower end out
ratioScore_OpenLowerEnd(listingQuantity, amount) ==
  IF amount.num = 0 THEN 0
  ELSE LET q == listingQuantity * amount.den
           a == amount.num
       IN IF 10 * q > 8 * a /\ 10 * q <= 12 * a THEN 20
          ELSE IF 2 * q >= a /\ q <= 2 * a THEN 15
          ELSE IF 10 * q >= 3 * a /\ q <= 3 * a THEN 10
          ELSE 0

\* ratio = listingQuantity / amount against the three bands, in exact
\* arithmetic: with amount = num / den the ratio is q / a for
\* q = listingQuantity * den and a = num.  A division by zero gives Infinity
\* or NaN, which is in no band.
ratioScore(listingQuantity, amount) ==
  IF amount.num = 0 THEN 0
  ELSE LET q == listingQuantity * amount.den
           a == amount.num
       IN IF 10 * q >= 8 * a /\ 10 * q <= 12 * a THEN 20
          ELSE IF 2 * q >= a /\ q <= 2 * a THEN 15
          ELSE IF 10 * q >= 3 * a /\ q <= 3 * a THEN 10
          ELSE 0

\* const listingUnit = listing.unit || 'tons'
listingUnit(l) == IF l.unit = Empty THEN Tons ELSE l.unit

\* unit === listingUnit || (unit === 'ton' && listingUnit === 'tons')
unitsAligned(unit, lUnit) == unit = lUnit \/ (unit = Ton /\ lUnit = Tons)

\* variant: a requirement that does not parse gets the default as well
volumeScore_DefaultWhenUnparsed(b, l) ==
  LET volumeMatch == parseVolume(b.volumeRequired) IN
    IF b.volumeRequired # Empty /\ volumeMatch.matched
    THEN IF unitsAligned(volumeMatch.unit, listingUnit(l))
         THEN ratioScore(l.quantity, volumeMatch.amount)
         ELSE 0
    ELSE 10

\* 3. quantity: the default of 10 is the else branch of
\* if (buyer.volumeRequired); a requirement that is there scores by its
\* bands when it parses and the units are aligned, and nothing otherwise
volumeScore(b, l) ==
  LET volumeMatch == parseVolume(b.volumeRequired) IN
    IF b.volumeRequired # Empty
    THEN IF volumeMatch.matched
         THEN IF unitsAligned(volumeMatch.unit, listingUnit(l))
              THEN ratioScore(l.quantity, volumeMatch.amount)
              ELSE 0
         ELSE 0
    ELSE 10

\* 4. price
priceScore(l) == IF l.pricePerUnit > 0 THEN 10 ELSE 0

\* 5. availability
availabilityScore(l) ==
  IF l.availableInDays <= 0 THEN 10
  ELSE IF l.availableInDays <= 30 THEN 7
  ELSE IF l.availableInDays <= 90 THEN 4
  ELSE 0

\* variant: every buyer is treated as a domestic one
verificationScore_NoHardRequirement(b, l) ==
  IF ~l.verified THEN [returns |-> FALSE, score |-> 0 - 20]
  ELSE [returns |-> FALSE, score |-> 5]

\* 0. verification: return 0 at once for an international buyer, else a
\* penalty of 20 for an unverified farmer and a bonus of 5 for a verified one
verificationScore(b, l) ==
  IF ~l.verified
  THEN IF InternationalBuyer(b)
       THEN [returns |-> TRUE, score |-> 0]
       ELSE [returns |-> FALSE, score |-> 0 - 20]
  ELSE [returns |-> FALSE, score |-> 5]

\* variant: the crop component is left out of the sum
componentsSum_NoCrop(b, l) ==
  verificationScore(b, l).score + qualityScore(b, l)
    + volumeScore(b, l) + priceScore(l) + availabilityScore(l)

componentsSum(b, l) ==
  verificationScore(b, l).score + cropScore(b, l) + qualityScore(b, l)
    + volumeScore(b, l) + priceScore(l) + availabilityScore(l)

calculateCompatibilityScore(b, l) ==
  LET verification == verificationScore(b, l) IN
    IF verification.returns
    THEN verification.score
    ELSE Min(componentsSum(b, l), maxScore)

(***************************************************************************)
(* AiClientService.generateMatchRecommendation.  The text-generation call  *)
(* is unconfigured (no API key), succeeds or fails; the reasons are        *)
(* modelled by where they come from.                                       *)
(***************************************************************************)
AiOutcomes == {"unconfigured", "succeeds", "fails"}

generateMatchRecommendation(ai) ==
  IF ai = "unconfigured"
  THEN [threw |-> FALSE, reasons |-> "getFallbackReasons"]
  ELSE IF ai = "succeeds"
  THEN [threw |-> FALSE, reasons |-> "parseRecommendation"]
  ELSE [threw |-> FALSE, reasons |-> "getFallbackReasons"]

(***************************************************************************)
(* MatchingService.findMatches over the listings with the given ids.       *)
(***************************************************************************)
\* the try / catch around the recommendation
reasonsOf(ai) ==
  IF generateMatchRecommendation(ai).threw
  THEN "getMatchReasons"
  ELSE generateMatchRecommendation(ai).reasons

\* the scores computed by the loop, one per listing, in order
RECURSIVE scoresOf(_, _, _)
scoresOf(b, ls, ids) ==
  IF ids = <<>> THEN <<>>
  ELSE <<[listingId |-> Head(ids),
          score |-> calculateCompatibilityScore(b, ls[Head(ids)])]>>
       \o scoresOf(b, ls, Tail(ids))

\* the entry pushed for a listing; Math.round(score * 100) / 100 leaves a
\* whole number as it is
MatchResult(b, ls, id, ai) ==
  [listingId |-> id,
   score |-> calculateCompatibilityScore(b, ls[id]),
   estimatedValue |-> ls[id].quantity * ls[id].pricePerUnit,
   reasons |-> reasonsOf(ai)]

\* variant: a listing whose recommendation call failed is not pushed
RECURSIVE pushed_NotOnFailure(_, _, _, _)
pushed_NotOnFailure(b, ls, ids, ai) ==
  IF ids = <<>> THEN <<>>
  ELSE (IF calculateCompatibilityScore(b, ls[Head(ids)]) > 30 /\ ai # "fails"
        THEN <<MatchResult(b, ls, Head(ids), ai)>> ELSE <<>>)
       \o pushed_NotOnFailure(b, ls, Tail(ids), ai)

\* the array matches after the loop: if (score > 30) matches.push(...)
RECURSIVE pushed(_, _, _, _)
pushed(b, ls, ids, ai) ==
  IF ids = <<>> THEN <<>>
  ELSE (IF calculateCompatibilityScore(b, ls[Head(ids)]) > 30
        THEN <<MatchResult(b, ls, Head(ids), ai)>> ELSE <<>>)
       \o pushed(b, ls, Tail(ids), ai)

\* one step of the stable sort: m goes after the entries that score at
\* least as much
InsertByScore(sorted, m) ==
  LET k == Cardinality({i \in 1..Len(sorted) : sorted[i].score >= m.score}) IN
    SubSeq(sorted, 1, k) \o <<m>> \o SubSeq(sorted, k + 1, Len(sorted))

\* variant: the array is left in the order of the loop
sortByScore_Unsorted(ms) == ms

\* matches.sort((a, b) => b.score - a.score), a stable sort
RECURSIVE sortByScore(_)
sortByScore(ms) ==
  IF ms = <<>> THEN <<>>
  ELSE InsertByScore(sortByScore(SubSeq(ms, 1, Len(ms) - 1)), ms[Len(ms)])

\* Array.prototype.slice(0, end): a negative end counts from the end
slice(ms, end) ==
  SubSeq(ms, 1, IF end < 0 THEN Max(Len(ms) + end, 0) ELSE Min(end, Len(ms)))

findMatches(b, ls, ids, limit, ai) ==
  slice(sortByScore(pushed(b, ls, ids, ai)), limit)

(***************************************************************************)
(* MatchesService.suggestMatches                                           *)
(***************************************************************************)
BuyerIds == {1}
BuyerIdInputs == BuyerIds \cup {2}

\* variant: no filter on the farmer's verification
listingWhere_ActiveOnly(b, l) == l.status = "ACTIVE"

\* whereClause: status ACTIVE, and for a buyer from outside Ghana a farmer
\* whose user is verified
listingWhere(b, l) ==
  /\ l.status = "ACTIVE"
  /\ (b.country # Empty /\ b.country # GH) => l.verified

\* listing.findMany({ where: whereClause }): the ids of the rows, in order
RECURSIVE findMany(_, _, _)
findMany(b, ls, i) ==
  IF i > Len(ls) THEN <<>>
  ELSE (IF listingWhere(b, ls[i]) THEN <<i>> ELSE <<>>) \o findMany(b, ls, i + 1)

\* the row written by match.create for a result
NewMatch(m) ==
  [status |-> "SUGGESTED", negotiationStartedAt |-> FALSE,
   contractSignedAt |-> FALSE, listingId |-> m.listingId,
   compatibilityScore |-> m.score, estimatedValue |-> m.estimatedValue]

AllIds(ls) == [i \in 1..Len(ls) |-> i]

\* a call of MatchingService.findMatches on all the listings
FindMatches ==
  /\ matchRun.phase = "request"
  /\ matchRun' =
       [matchRun EXCEPT
          !.phase = "done",
          !.op = "findMatches",
          !.scored = scoresOf(buyer, listings, AllIds(listings)),
          !.results = findMatches(buyer, listings, AllIds(listings),
                                  matchRun.limit, matchRun.ai)]
  /\ UNCHANGED <<rows, result, calls, pc, local, buyer, listings>>

\* POST matches/suggest?buyerId=...&limit=...
SuggestMatches(buyerId) ==
  /\ matchRun.phase = "request"
  /\ UNCHANGED <<negotiations, offers, transactions, result, calls, pc, local,
                 buyer, listings>>
  /\ IF buyerId \notin BuyerIds
     THEN /\ matchRun' = [matchRun EXCEPT !.phase = "done",
                                          !.op = "suggestMatches",
                                          !.buyerId = buyerId,
                                          !.outcome = "NotFound"]
          /\ UNCHANGED matches
     ELSE LET ids == findMany(buyer, listings, 1)
              found == findMatches(buyer, listings, ids, matchRun.limit, matchRun.ai)
          IN /\ matchRun' = [matchRun EXCEPT !.phase = "done",
                                             !.op = "suggestMatches",
                                             !.buyerId = buyerId,
                                             !.scored = scoresOf(buyer, listings, ids),
                                             !.results = found]
             /\ matches' =
                  [i \in 1..(Len(matches) + Len(found)) |->
                     IF i <= Len(matches) THEN matches[i]
                     ELSE NewMatch(found[i - Len(matches)])]

DoFindMatches == FindMatches
DoSuggestMatches == \E buyerId \in BuyerIdInputs : SuggestMatches(buyerId)

(***************************************************************************)
(* The buyers, listings and requests the matching service is run on.       *)
(***************************************************************************)
MaxListings == 3

BuyerInputs ==
  [country : {Empty, GH, US},
   seekingCrops : {<<Cocoa>>, <<Maize, COCO>>, <<>>},
   qualityStandards : {<<PREMIUM>>, <<Std, OrganicStandard>>},
   volumeRequired : {Empty, TenTonsPerMonth, TwoAndAHalfTONS, TenTonnes,
                     TenKg, TenBags, ZeroTons}]

Produce ==
  {[cropType |-> Cocoa, qualityGrade |-> PREMIUM],
   [cropType |-> COCOA, qualityGrade |-> STANDARD]}
Terms ==
  {[pricePerUnit |-> 5, availableInDays |-> 0],
   [pricePerUnit |-> 0, availableInDays |-> 30],
   [pricePerUnit |-> 5, availableInDays |-> 90],
   [pricePerUnit |-> 0, availableInDays |-> 91]}
Quantities == {0, 3, 5, 7, 8, 12, 30, 31}

Listing(verified, status, produce, quantity, unit, terms) ==
  [verified |-> verified, status |-> status,
   cropType |-> produce.cropType, qualityGrade |-> produce.qualityGrade,
   quantity |-> quantity, unit |-> unit,
   pricePerUnit |-> terms.pricePerUnit,
   availableInDays |-> terms.availableInDays]

ListingInputs ==
  {Listing(verified, "ACTIVE", produce, quantity, unit, terms) :
     verified \in BOOLEAN, produce \in Produce, quantity \in Quantities,
     unit \in {Tons, Kg}, terms \in Terms}

\* the buyer of the worked example, at home and abroad
CocoaBuyer(country) ==
  [country |-> country, seekingCrops |-> <<Cocoa>>,
   qualityStandards |-> <<PREMIUM>>, volumeRequired |-> TenTonsPerMonth]
CatalogueBuyers == {CocoaBuyer(GH), CocoaBuyer(US)}

\* listings that score 100, 70, 45 and 10 for that buyer at home; the
\* second is no longer on offer
Catalogue ==
  {Listing(TRUE, "ACTIVE", [cropType |-> Cocoa, qualityGrade |-> PREMIUM], 12, Tons,
           [pricePerUnit |-> 5, availableInDays |-> 0]),
   Listing(TRUE, "SOLD", [cropType |-> COCOA, qualityGrade |-> STANDARD], 5, Tons,
           [pricePerUnit |-> 5, availableInDays |-> 0]),
   Listing(FALSE, "ACTIVE", [cropType |-> COCOA, qualityGrade |-> STANDARD], 5, Tons,
           [pricePerUnit |-> 5, availableInDays |-> 0]),
   Listing(FALSE, "ACTIVE", [cropType |-> COCOA, qualityGrade |-> STANDARD], 0, Kg,
           [pricePerUnit |-> 0, availableInDays |-> 91])}

RECURSIVE ListsOf(_, _)
ListsOf(S, n) ==
  IF n = 0 THEN {<<>>}
  ELSE ListsOf(S, n - 1)
         \cup {Append(ls, l) : ls \in {x \in ListsOf(S, n - 1) : Len(x) = n - 1}, l \in S}

LimitInputs == (0 - 1)..MaxListings
DefaultLimit == 10

Request(limit, ai) ==
  [phase |-> "request", op |-> "none", buyerId |-> 0, limit |-> limit, ai |-> ai,
   scored |-> <<>>, outcome |-> "ok", results |-> <<>>]

InitMatching ==
  /\ matches = [m \in Matches |->
                 [status |-> "SUGGESTED", negotiationStartedAt |-> FALSE,
                  contractSignedAt |-> FALSE]]
  /\ negotiations = <<>>
  /\ offers = <<>>
  /\ transactions = <<>>
  /\ result = [op |-> "none", id |-> 0, outcome |-> "ok", message |-> ""]
  /\ calls = 0
  /\ pc = Idle
  /\ local = [p \in Procs |-> NoLocal]
  /\ \/ /\ buyer \in BuyerInputs
        /\ \E l \in ListingInputs : listings = <<l>>
        /\ matchRun = Request(DefaultLimit, "unconfigured")
     \/ /\ buyer \in CatalogueBuyers
        /\ listings \in ListsOf(Catalogue, MaxListings)
        /\ \E limit \in LimitInputs, ai \in AiOutcomes :
             matchRun = Request(limit, ai)

NextMatching ==
  \/ DoFindMatches
  \/ DoSuggestMatches

SpecMatching == InitMatching /\ [][NextMatching]_vars


(***************************************************************************)
(* Properties.                                                             *)
(***************************************************************************)
NegotiationsOfMatch(m) ==
  {i \in 1..Len(negotiations) : negotiations[i].matchId = m}
ActiveNegotiationsOfMatch(m) ==
  {i \in NegotiationsOfMatch(m) : negotiations[i].status = "ACTIVE"}
OffersOfNegotiation(n) ==
  {o \in 1..Len(offers) : offers[o].negotiationId = n}
TransactionCount(txs, n) == Cardinality(TransactionsOf(txs, n))

\* the step serves a request to the named operation
Served(op) == calls' = calls + 1 /\ result'.op = op

\* C1: with requests served one at a time, every match has at most one
\* negotiation whose status is ACTIVE.
C1_AtMostOneActivePerMatch ==
  \A m \in Matches : Cardinality(ActiveNegotiationsOfMatch(m)) <= 1

\* a match that went through two negotiations, exactly one of them ACTIVE
C1_Witness ==
  \E m \in Matches :
    /\ Cardinality(NegotiationsOfMatch(m)) >= 2
    /\ Cardinality(ActiveNegotiationsOfMatch(m)) = 1

\* C2: a negotiation whose status is no longer ACTIVE never changes status
\* again, whatever request is served.
C2_TerminalNegotiationStatus ==
  [][\A i \in 1..Len(negotiations) :
       negotiations[i].status # "ACTIVE"
         => negotiations'[i].status = negotiations[i].status]_vars

\* C3: every negotiation whose status is ACCEPTED has exactly one
\* transaction row referring to it.
C3_OneTransactionPerAccepted ==
  \A i \in 1..Len(negotiations) :
    negotiations[i].status = "ACCEPTED"
      => TransactionCount(transactions, i) = 1

\* C4: with acceptNegotiation requests interleaved step by step, no two
\* transaction rows ever carry the same negotiationId.
C4_NoDuplicateTransaction ==
  \A a, b \in 1..Len(transactions) :
    a # b => transactions[a].negotiationId # transactions[b].negotiationId

\* two requests both found no transaction; the slower insert was refused
C4_Witness ==
  /\ result.op = "acceptNegotiation"
  /\ result.outcome = "UniqueViolation"
  /\ TransactionCount(transactions, result.id) = 1

\* C5: acceptNegotiation on an ACTIVE negotiation succeeds and leaves it
\* ACCEPTED with one transaction; the same request repeated right after a
\* successful one fails with a bad request, changes no row, and one
\* transaction exists for the negotiation afterwards.
C5_AcceptTwiceInSequence ==
  [][\A id \in 1..Len(negotiations), userId \in Users :
       (Served("acceptNegotiation") /\ AcceptNegotiation(id, userId)) =>
         /\ negotiations[id].status = "ACTIVE" =>
              /\ result'.outcome = "ok"
              /\ negotiations'[id].status = "ACCEPTED"
              /\ TransactionCount(transactions', id) = 1
         /\ result = Response("acceptNegotiation", id, "ok", "") =>
              /\ result'.outcome = "BadRequest"
              /\ result'.message = "Negotiation is not active"
              /\ rows' = rows
              /\ TransactionCount(transactions', id) = 1]_vars

\* create, accept, accept: the third request was refused
C5_Witness ==
  /\ calls = 3
  /\ result = Response("acceptNegotiation", 1, "BadRequest",
                       "Negotiation is not active")
  /\ Len(negotiations) = 1
  /\ negotiations[1].status = "ACCEPTED"
  /\ TransactionCount(transactions, 1) = 1

EarlierAllRejectedOrExpired(m) ==
  /\ NegotiationsOfMatch(m) # {}
  /\ \A i \in NegotiationsOfMatch(m) :
       negotiations[i].status \in {"REJECTED", "EXPIRED"}

AddsOneActive(m) ==
  /\ Len(negotiations') = Len(negotiations) + 1
  /\ SubSeq(negotiations', 1, Len(negotiations)) = negotiations
  /\ negotiations'[Len(negotiations')].matchId = m
  /\ negotiations'[Len(negotiations')].status = "ACTIVE"

\* C6 (as claimed): create on a match that has an ACTIVE negotiation fails
\* with a bad request and adds no negotiation; on an existing match whose
\* earlier negotiations are all REJECTED or EXPIRED it succeeds and adds one
\* new ACTIVE negotiation.
C6_CreateAsClaimed ==
  [][(Served("create") /\ result'.id \in Matches) =>
       /\ ActiveNegotiationsOfMatch(result'.id) # {} =>
            /\ result'.outcome = "BadRequest"
            /\ negotiations' = negotiations
       /\ EarlierAllRejectedOrExpired(result'.id) =>
            /\ result'.outcome = "ok"
            /\ AddsOneActive(result'.id)]_vars

\* C6 (amended): as above, but the second case succeeds when the request
\* names an initiator (createDto.initiatedBy or the caller's user id); with
\* neither it fails with a bad request and adds no negotiation.
C6_CreateAmended ==
  [][(Served("create") /\ result'.id \in Matches) =>
       /\ ActiveNegotiationsOfMatch(result'.id) # {} =>
            /\ result'.outcome = "BadRequest"
            /\ negotiations' = negotiations
       /\ EarlierAllRejectedOrExpired(result'.id) =>
            \A dto \in NegotiationTermsInputs,
               dtoInitiatedBy \in UserInputs, userId \in UserInputs :
              Create(result'.id, dto.initialPrice, dto.currentPrice,
                     dto.quantity, ExpiresAtInputs[result'.id], dtoInitiatedBy,
                     userId) =>
                IF dtoInitiatedBy # NoUser \/ userId # NoUser
                THEN /\ result'.outcome = "ok"
                     /\ AddsOneActive(result'.id)
                ELSE /\ result'.outcome = "BadRequest"
                     /\ negotiations' = negotiations]_vars

\* a match whose first negotiation was rejected got a second, ACTIVE one
C6_Witness ==
  /\ result.op = "create"
  /\ result.outcome = "ok"
  /\ Len(negotiations) >= 2
  /\ negotiations[Len(negotiations)].matchId = result.id
  /\ negotiations[Len(negotiations)].status = "ACTIVE"
  /\ \E i \in 1..(Len(negotiations) - 1) :
       /\ negotiations[i].matchId = result.id
       /\ negotiations[i].status = "REJECTED"

\* C7: an ACCEPTED response to a PENDING offer sets the parent negotiation
\* to ACCEPTED whatever the other offers' statuses, and createOffer on a
\* negotiation that has an ACCEPTED offer fails and adds nothing.
C7_AcceptedOfferClosesNegotiation ==
  [][/\ \A offerId \in 1..Len(offers), userId \in Users :
          (Served("respondToOffer")
             /\ offers[offerId].status = "PENDING"
             /\ RespondToOffer(offerId, "ACCEPTED", userId))
            => negotiations'[offers[offerId].negotiationId].status = "ACCEPTED"
     /\ \A n \in 1..Len(negotiations), dto \in OfferTermsInputs,
           offeredBy \in Users :
          (Served("createOffer")
             /\ (\E o \in OffersOfNegotiation(n) : offers[o].status = "ACCEPTED")
             /\ CreateOffer(n, dto.price, dto.quantity, offeredBy))
            => /\ result'.outcome = "BadRequest"
               /\ offers' = offers
               /\ negotiations' = negotiations]_vars

\* an offer was accepted while another offer of the negotiation is PENDING
C7_Witness ==
  /\ result.op = "respondToOffer"
  /\ result.outcome = "ok"
  /\ OfferExists(result.id)
  /\ offers[result.id].status = "ACCEPTED"
  /\ negotiations[offers[result.id].negotiationId].status = "ACCEPTED"
  /\ \E o \in OffersOfNegotiation(offers[result.id].negotiationId) :
       o # result.id /\ offers[o].status = "PENDING"

\* C8: an offer that has left PENDING never changes status again, and
\* respondToOffer on it fails with a bad request.
C8_TerminalOfferStatus ==
  [][\A o \in 1..Len(offers) :
       offers[o].status # "PENDING" =>
         /\ offers'[o].status = offers[o].status
         /\ \A status \in OfferStatus, userId \in Users :
              (Served("respondToOffer") /\ RespondToOffer(o, status, userId)) =>
                /\ result'.outcome = "BadRequest"
                /\ rows' = rows]_vars

\* a second response to an offer was refused
C8_Witness ==
  /\ result.op = "respondToOffer"
  /\ result.outcome = "BadRequest"
  /\ OfferExists(result.id)
  /\ offers[result.id].status \in OfferStatus \ {"PENDING"}

\* C9: a successful createOffer adds one PENDING offer and overwrites the
\* negotiation's currentPrice, quantity and lastUpdatedBy with the offer's
\* price, quantity and offeredBy; status and initialPrice stay as they were.
C9_CreateOfferOverwritesTerms ==
  [][\A n \in 1..Len(negotiations), dto \in OfferTermsInputs,
        offeredBy \in Users :
       (Served("createOffer")
          /\ result'.outcome = "ok"
          /\ CreateOffer(n, dto.price, dto.quantity, offeredBy)) =>
         /\ Len(offers') = Len(offers) + 1
         /\ SubSeq(offers', 1, Len(offers)) = offers
         /\ offers'[Len(offers')].status = "PENDING"
         /\ offers'[Len(offers')].negotiationId = n
         /\ offers'[Len(offers')].price = dto.price
         /\ offers'[Len(offers')].quantity = dto.quantity
         /\ offers'[Len(offers')].offeredBy = offeredBy
         /\ negotiations'[n].currentPrice = dto.price
         /\ negotiations'[n].quantity = dto.quantity
         /\ negotiations'[n].lastUpdatedBy = offeredBy
         /\ negotiations'[n].status = negotiations[n].status
         /\ negotiations'[n].initialPrice = negotiations[n].initialPrice
         /\ negotiations[n].status = "ACTIVE"]_vars

\* an offer by someone other than the negotiation's creator moved the
\* current price away from the initial price
C9_Witness ==
  /\ result.op = "createOffer"
  /\ result.outcome = "ok"
  /\ Len(offers) = 1
  /\ negotiations[result.id].currentPrice = offers[1].price
  /\ negotiations[result.id].currentPrice # negotiations[result.id].initialPrice
  /\ negotiations[result.id].quantity = offers[1].quantity
  /\ negotiations[result.id].lastUpdatedBy = offers[1].offeredBy

\* C10: a successful acceptNegotiation on a negotiation without a
\* transaction sets it to ACCEPTED, creates one transaction with
\* agreedPrice = currentPrice, quantity = quantity and totalValue =
\* currentPrice * quantity, and sets the match to CONTRACT_SIGNED.
C10_AcceptCreatesTransaction ==
  [][\A id \in 1..Len(negotiations), userId \in Users :
       (Served("acceptNegotiation")
          /\ result'.outcome = "ok"
          /\ TransactionsOf(transactions, id) = {}
          /\ AcceptNegotiation(id, userId)) =>
         /\ negotiations'[id].status = "ACCEPTED"
         /\ Len(transactions') = Len(transactions) + 1
         /\ SubSeq(transactions', 1, Len(transactions)) = transactions
         /\ transactions'[Len(transactions')].negotiationId = id
         /\ transactions'[Len(transactions')].agreedPrice =
              negotiations[id].currentPrice
         /\ transactions'[Len(transactions')].quantity =
              negotiations[id].quantity
         /\ transactions'[Len(transactions')].totalValue =
              negotiations[id].currentPrice * negotiations[id].quantity
         /\ matches'[negotiations[id].matchId].status = "CONTRACT_SIGNED"]_vars

\* a negotiation was accepted at a price other than its initial price, for
\* more than one unit
C10_Witness ==
  /\ result.op = "acceptNegotiation"
  /\ result.outcome = "ok"
  /\ negotiations[result.id].status = "ACCEPTED"
  /\ negotiations[result.id].currentPrice # negotiations[result.id].initialPrice
  /\ negotiations[result.id].quantity > 1
  /\ matches[negotiations[result.id].matchId].status = "CONTRACT_SIGNED"
  /\ \E t \in TransactionsOf(transactions, result.id) :
       transactions[t].totalValue =
         negotiations[result.id].currentPrice * negotiations[result.id].quantity



(***************************************************************************)
(* Properties of rejectNegotiation and of the failures, under Spec.        *)
(***************************************************************************)
\* C11: rejectNegotiation fails, with not-found, only when the negotiation
\* is absent; on a negotiation that exists, whatever its status, it sets
\* the status to REJECTED and leaves every Match row, every offer and every
\* transaction as it was.
C11_RejectOnlyRejects ==
  [][Served("rejectNegotiation") =>
       /\ (result'.outcome # "ok") <=> (result'.id \notin 1..Len(negotiations))
       /\ (result'.outcome # "ok") => result'.outcome = "NotFound"
       /\ (result'.id \in 1..Len(negotiations)) =>
            /\ negotiations'[result'.id].status = "REJECTED"
            /\ matches' = matches
            /\ offers' = offers
            /\ transactions' = transactions]_vars

\* an accepted negotiation was rejected: its transaction and the signed
\* match are still there
C11_Witness ==
  /\ result.op = "rejectNegotiation"
  /\ result.outcome = "ok"
  /\ negotiations[result.id].status = "REJECTED"
  /\ matches[negotiations[result.id].matchId].status = "CONTRACT_SIGNED"
  /\ TransactionCount(transactions, result.id) = 1
  /\ OffersOfNegotiation(result.id) # {}

\* the entity a request refers to is not there
Absent(op, id) ==
  IF op = "create" THEN id \notin DOMAIN matches
  ELSE IF op = "respondToOffer" THEN id \notin 1..Len(offers)
  ELSE id \notin 1..Len(negotiations)

\* the entity is there, in a state the operation refuses
WrongState(op, id) ==
  IF op = "create" THEN ActiveNegotiationsOfMatch(id) # {}
  ELSE IF op \in {"createOffer", "acceptNegotiation"}
       THEN negotiations[id].status # "ACTIVE"
  ELSE IF op = "respondToOffer" THEN offers[id].status # "PENDING"
  ELSE FALSE

\* absence is checked first and reported as not-found, a wrong state next
\* and reported as a bad request
AbsenceThenState(op, id, outcome) ==
  /\ Absent(op, id) => outcome = "NotFound"
  /\ (~Absent(op, id) /\ WrongState(op, id)) => outcome = "BadRequest"

C20_ActivePerMatchBoundedByRequests ==
  \A m \in Matches :
    Cardinality(ActiveNegotiationsOfMatch(m)) <= Cardinality(Procs)

\* one match with two ACTIVE negotiations
C20_Witness ==
  \E m \in Matches : Cardinality(ActiveNegotiationsOfMatch(m)) = 2

(***************************************************************************)
(* Properties of the matching service, under SpecMatching.                 *)
(***************************************************************************)
Done == matchRun.phase = "done"
Scored == matchRun.scored
Returned == matchRun.results
ScoredListing(k) == listings[Scored[k].listingId]
Domestic(b) == b.country \in {Empty, GH}
\* the listing's score is the capped sum of the six components
Summed(b, l) == l.verified \/ Domestic(b)
NonVolumeScore(b, l) ==
  (IF l.verified THEN 5 ELSE 0 - 20) + cropScore(b, l) + qualityScore(b, l)
    + priceScore(l) + availabilityScore(l)
IdsOf(ms) == [k \in 1..Len(ms) |-> ms[k].listingId]
IdsAndScores(ms) ==
  [k \in 1..Len(ms) |-> [listingId |-> ms[k].listingId, score |-> ms[k].score]]

\* C13: the compatibility score of every listing lies between 0 and 100.
\* (Violated: a domestic buyer's unverified listing starts at -20 and only
\* the upper end is capped.)
C13_ScoreInRange ==
  \A k \in 1..Len(Scored) : Scored[k].score \in 0..maxScore

TopMatches(limit) ==
  /\ \A k \in 1..Len(Returned) : Returned[k].score > 30
  /\ \A k \in 1..(Len(Returned) - 1) : Returned[k].score >= Returned[k + 1].score
  /\ Len(Returned) <= limit
  /\ \A k \in 1..Len(Returned) :
       /\ \E j \in 1..Len(Scored) : Scored[j] = IdsAndScores(Returned)[k]
       /\ \A j \in 1..Len(Returned) :
            Returned[j].listingId = Returned[k].listingId => j = k
  /\ \A j \in 1..Len(Scored) :
       (\A k \in 1..Len(Returned) : Returned[k].listingId # Scored[j].listingId) =>
         \/ Scored[j].score <= 30
         \/ Cardinality({k \in 1..Len(Returned) :
                           Returned[k].score >= Scored[j].score}) >= limit

C16_DefaultWheneverUnparsed ==
  \A k \in 1..Len(Scored) :
    (Summed(buyer, ScoredListing(k)) /\ ~parseVolume(buyer.volumeRequired).matched) =>
      Scored[k].score = Min(NonVolumeScore(buyer, ScoredListing(k)) + 10, maxScore)

\* C16 amended: the volume component is the default of 10 when the buyer
\* has no volume requirement (the field is absent or empty), and 0 when
\* the requirement is there and does not parse.
C16_DefaultOnlyWhenAbsent ==
  \A k \in 1..Len(Scored) :
    (Summed(buyer, ScoredListing(k)) /\ ~parseVolume(buyer.volumeRequired).matched) =>
      Scored[k].score =
        Min(NonVolumeScore(buyer, ScoredListing(k))
              + (IF buyer.volumeRequired = Empty THEN 10 ELSE 0), maxScore)

C16_Witness ==
  /\ Done
  /\ buyer.volumeRequired = TenBags
  /\ \E k \in 1..Len(Scored) :
       /\ Summed(buyer, ScoredListing(k))
       /\ Scored[k].score = NonVolumeScore(buyer, ScoredListing(k))
       /\ Scored[k].score > 30

\* the points of the band the ratio quantity / (num / den) falls in
BandPoints(quantity, num, den) ==
  IF 10 * quantity * den >= 8 * num /\ 10 * quantity * den <= 12 * num THEN 20
  ELSE IF 2 * quantity * den >= num /\ quantity * den <= 2 * num THEN 15
  ELSE IF 10 * quantity * den >= 3 * num /\ quantity * den <= 3 * num THEN 10
  ELSE 0

\* C17: with a parsed requirement of a positive amount and aligned units,
\* the volume component is 20 for a ratio in [0.8, 1.2], else 15 in
\* [0.5, 2], else 10 in [0.3, 3], else 0, the ends of each band included.
C17_RatioBands ==
  \A k \in 1..Len(Scored) :
    LET l == ScoredListing(k)
        v == parseVolume(buyer.volumeRequired)
    IN (/\ Summed(buyer, l)
        /\ v.matched
        /\ v.amount.num > 0
        /\ (v.unit = l.unit \/ (v.unit = Ton /\ l.unit = Tons))) =>
         Scored[k].score =
           Min(NonVolumeScore(buyer, l)
                 + BandPoints(l.quantity, v.amount.num, v.amount.den), maxScore)

\* a ratio of exactly 0.8 (8 tons for "10 tons/month") scores 20 and one
\* just below (7 tons) scores 15
C17_Witness ==
  /\ Done
  /\ buyer.volumeRequired = TenTonsPerMonth
  /\ \E k \in 1..Len(Scored) :
       LET l == ScoredListing(k) IN
         /\ Summed(buyer, l)
         /\ l.unit = Tons
         /\ l.quantity = 8
         /\ Scored[k].score = NonVolumeScore(buyer, l) + 20

\* the listing of the worked example
WorkedListing(l) ==
  /\ l.verified
  /\ l.cropType = Cocoa
  /\ l.qualityGrade = PREMIUM
  /\ l.quantity = 12
  /\ l.unit = Tons
  /\ l.pricePerUnit > 0
  /\ l.availableInDays <= 0

\* C18: a domestic buyer seeking "Cocoa" to the standard "PREMIUM" with the
\* volume "10 tons/month" scores a verified listing of 12 tons of PREMIUM
\* Cocoa with a positive price, available now, at exactly 100.
C18_WorkedExample ==
  \A k \in 1..Len(Scored) :
    (/\ Domestic(buyer)
     /\ buyer.seekingCrops = <<Cocoa>>
     /\ buyer.qualityStandards = <<PREMIUM>>
     /\ buyer.volumeRequired = TenTonsPerMonth
     /\ WorkedListing(ScoredListing(k))) =>
      Scored[k].score = 5 + 30 + 25 + 20 + 10 + 10

C18_Witness ==
  /\ Done
  /\ buyer = CocoaBuyer(GH)
  /\ Len(Returned) = 1
  /\ WorkedListing(listings[Returned[1].listingId])
  /\ Returned[1].score = 100

\* C19: a matching request never fails for the text-generation call: the
\* listings returned and their scores are those of the same request with
\* the call unconfigured, succeeding or failing; only the reasons differ.
C19_SameMatchesWhateverTheCall ==
  (Done /\ (matchRun.op = "findMatches" \/ matchRun.buyerId \in BuyerIds)) =>
    /\ matchRun.outcome = "ok"
    /\ \A ai \in AiOutcomes \ {matchRun.ai} :
         IdsAndScores(Returned) =
           IdsAndScores(findMatches(buyer, listings, IdsOf(Scored),
                                    matchRun.limit, ai))

C19_Witness ==
  /\ Done
  /\ matchRun.ai = "fails"
  /\ matchRun.outcome = "ok"
  /\ Len(Returned) = 2
  /\ \A k \in 1..Len(Returned) : Returned[k].reasons = "getFallbackReasons"

(***************************************************************************)
(* Failures, the match status and acceptance across the negotiation        *)
(* operations, requests served one at a time.                              *)
(***************************************************************************)
\* C23: a request to the negotiation service that ends in an error leaves
\* every Match, Negotiation, Offer and Transaction row as it was; a failing
\* create changes neither the match's status nor its negotiationStartedAt.
C23_FailureChangesNoRow ==
  [][(calls' = calls + 1 /\ result'.outcome # "ok") => rows' = rows]_vars

\* the order of the match statuses on the way to a completed trade
StatusRank ==
  [s \in MatchStatus |->
     CASE s = "SUGGESTED" -> 1
       [] s = "CONTACTED" -> 2
       [] s = "NEGOTIATING" -> 3
       [] s = "CONTRACT_SIGNED" -> 4
       [] s = "COMPLETED" -> 5
       [] OTHER -> 0]

\* C24: under the negotiation operations a match's status never moves
\* backward in SUGGESTED, CONTACTED, NEGOTIATING, CONTRACT_SIGNED, COMPLETED:
\* a match that is CONTRACT_SIGNED is not set back to NEGOTIATING by a new
\* negotiation.
C24_MatchStatusNeverBackward ==
  [][\A m \in Matches :
       StatusRank[matches'[m].status] >= StatusRank[matches[m].status]]_vars

\* C25: the step that accepts a negotiation which has been ACTIVE since it
\* was created, so that nothing later has touched its match, leaves the match
\* CONTRACT_SIGNED, whichever operation accepted it.
C25_AcceptedMeansContractSigned ==
  [][\A i \in 1..Len(negotiations) :
       (negotiations[i].status = "ACTIVE" /\ negotiations'[i].status = "ACCEPTED")
         => matches'[negotiations[i].matchId].status = "CONTRACT_SIGNED"]_vars

\* C26: when respondToOffer accepts an offer, the negotiation's currentPrice
\* and quantity are the accepted offer's price and quantity, later offers or
\* not.
C26_AcceptedOfferSetsTerms ==
  [][(Served("respondToOffer") /\ result'.outcome = "ok"
        /\ offers'[result'.id].status = "ACCEPTED") =>
       LET offer == offers[result'.id] IN
         /\ negotiations'[offer.negotiationId].currentPrice = offer.price
         /\ negotiations'[offer.negotiationId].quantity = offer.quantity]_vars

AcceptedOffersOf(n) ==
  {o \in OffersOfNegotiation(n) : offers[o].status = "ACCEPTED"}

\* C27: in every reachable state a negotiation has at most one offer whose
\* status is ACCEPTED.
C27_AtMostOneAcceptedOffer ==
  \A n \in 1..Len(negotiations) : Cardinality(AcceptedOffersOf(n)) <= 1

\* C28: with requests served one at a time, every transaction row refers to
\* a negotiation whose status is ACCEPTED.
C28_TransactionOfAcceptedNegotiation ==
  \A t \in 1..Len(transactions) :
    negotiations[transactions[t].negotiationId].status = "ACCEPTED"

(***************************************************************************)
(* Expiry of a negotiation.                                                *)
(***************************************************************************)
\* an ACTIVE negotiation whose expiresAt has passed
Expired(id) ==
  /\ id \in 1..Len(negotiations)
  /\ negotiations[id].status = "ACTIVE"
  /\ negotiations[id].expiresAt = Passed

\* C30: no operation sets a negotiation's status to EXPIRED or CANCELLED:
\* every step leaves every negotiation ACTIVE, ACCEPTED or REJECTED (none
\* exists at the start). An ACTIVE negotiation whose expiresAt has passed is
\* therefore still ACTIVE until it is accepted or rejected, and createOffer
\* and acceptNegotiation still succeed on it.
C30_NeverExpiredNorCancelled ==
  [][/\ \A i \in 1..Len(negotiations') :
          negotiations'[i].status \in {"ACTIVE", "ACCEPTED", "REJECTED"}
     /\ \A id \in 1..Len(negotiations) :
          Expired(id) =>
            /\ (Served("createOffer") /\ result'.id = id) =>
                 /\ result'.outcome = "ok"
                 /\ negotiations'[id].status = "ACTIVE"
                 /\ Len(offers') = Len(offers) + 1
            /\ (Served("acceptNegotiation") /\ result'.id = id) =>
                 /\ result'.outcome = "ok"
                 /\ negotiations'[id].status = "ACCEPTED"]_vars

\* a negotiation past its expiresAt took an offer and was then accepted
C30_Witness ==
  /\ result = Response("acceptNegotiation", result.id, "ok", "")
  /\ negotiations[result.id].expiresAt = Passed
  /\ negotiations[result.id].status = "ACCEPTED"
  /\ OffersOfNegotiation(result.id) # {}
  /\ TransactionCount(transactions, result.id) = 1

(***************************************************************************)
(* Retrying acceptNegotiation after an attempt that stopped half-way.      *)
(***************************************************************************)
\* C21: an acceptNegotiation attempt that reaches the transaction look-up
\* while a transaction of the negotiation exists (left by an attempt that
\* stopped before marking the negotiation ACCEPTED) finds it and skips the
\* insert; from then on it adds no transaction and it ends with a success,
\* the negotiation ACCEPTED, the match CONTRACT_SIGNED and one transaction
\* of the negotiation.
C21_RetriedAcceptCompletes ==
  [][\A p \in Procs :
       /\ (pc[p] = "findTransaction" /\ pc'[p] # "findTransaction"
             /\ TransactionsOf(transactions, local[p].id) # {}) =>
            /\ local'[p].found
            /\ pc'[p] = "updateNegotiation"
       /\ (local[p].found /\ pc'[p] # pc[p]) =>
            /\ transactions' = transactions
            /\ pc'[p] = "idle" =>
                 /\ result' = Response("acceptNegotiation", local[p].id, "ok", "")
                 /\ negotiations'[local[p].id].status = "ACCEPTED"
                 /\ matches'[local[p].matchId].status = "CONTRACT_SIGNED"
                 /\ TransactionCount(transactions', local[p].id) = 1]_vars

\* an attempt stopped after its insert, an offer changed the terms, and the
\* retry succeeded: the one transaction still carries the terms of the
\* stopped attempt
C21_Witness ==
  /\ pc = Idle
  /\ result = Response("acceptNegotiation", result.id, "ok", "")
  /\ negotiations[result.id].status = "ACCEPTED"
  /\ matches[negotiations[result.id].matchId].status = "CONTRACT_SIGNED"
  /\ TransactionCount(transactions, result.id) = 1
  /\ \E t \in TransactionsOf(transactions, result.id) :
       transactions[t].agreedPrice # negotiations[result.id].currentPrice

(***************************************************************************)
(* MatchesService.updateStatus                                             *)
(* PATCH matches/:id/status with body { status }                           *)
(***************************************************************************)
\* variant: a COMPLETED or CANCELLED match keeps its row
StatusUpdate_TerminalKept(m, status) ==
  IF m.status \in {"COMPLETED", "CANCELLED"}
  THEN m
  ELSE [m EXCEPT !.status = status,
                 !.contactedAt = @ \/ status = "CONTACTED",
                 !.negotiationStartedAt = @ \/ status = "NEGOTIATING",
                 !.contractSignedAt = @ \/ status = "CONTRACT_SIGNED",
                 !.completedAt = @ \/ status = "COMPLETED"]

\* updateData: the requested status, and the timestamp that belongs to it
\* when the match does not have it yet; a timestamp is modelled as set or not
StatusUpdate(m, status) ==
  [m EXCEPT !.status = status,
            !.contactedAt = @ \/ status = "CONTACTED",
            !.negotiationStartedAt = @ \/ status = "NEGOTIATING",
            !.contractSignedAt = @ \/ status = "CONTRACT_SIGNED",
            !.completedAt = @ \/ status = "COMPLETED"]

UpdateStatus(id, status) ==
  /\ Received
  /\ UNCHANGED <<negotiations, offers, transactions, pc, local>>
  /\ IF ~MatchExists(id)
     THEN /\ result' = Response("updateStatus", id, "NotFound",
                                "Match with ID ${id} not found")
          /\ UNCHANGED matches
     ELSE /\ matches' = [matches EXCEPT ![id] = StatusUpdate(@, status)]
          /\ result' = Response("updateStatus", id, "ok", "")

DoUpdateStatus ==
  \E id \in MatchIdInputs, status \in MatchStatus : UpdateStatus(id, status)

\* the Match rows with the four timestamps of the table, none set
InitMatchStatus ==
  /\ matches = [m \in Matches |->
                 [status |-> "SUGGESTED", contactedAt |-> FALSE,
                  negotiationStartedAt |-> FALSE, contractSignedAt |-> FALSE,
                  completedAt |-> FALSE]]
  /\ negotiations = <<>>
  /\ offers = <<>>
  /\ transactions = <<>>
  /\ result = [op |-> "none", id |-> 0, outcome |-> "ok", message |-> ""]
  /\ calls = 0
  /\ pc = Idle
  /\ local = [p \in Procs |-> NoLocal]
  /\ buyer = NoProfile
  /\ listings = <<>>
  /\ matchRun = NoRun

NextMatchStatus == DoUpdateStatus

SpecMatchStatus == InitMatchStatus /\ [][NextMatchStatus]_vars

\* C22: updateStatus fails only for a match that does not exist, with
\* not-found; on an existing match it applies whichever MatchStatus is
\* requested, whatever the current status and with no other match touched:
\* no transition is refused, statuses can be skipped, CANCELLED is reached
\* from every status, and a COMPLETED or CANCELLED match moves to any other.
C22_AnyStatusFromAnyStatus ==
  [][Served("updateStatus") =>
       /\ (result'.outcome # "ok") <=> (result'.id \notin Matches)
       /\ (result'.outcome # "ok") =>
            /\ result'.outcome = "NotFound"
            /\ matches' = matches
       /\ \A id \in Matches, status \in MatchStatus :
            UpdateStatus(id, status) =>
              /\ result' = Response("updateStatus", id, "ok", "")
              /\ matches'[id].status = status
              /\ \A m \in Matches \ {id} : matches'[m] = matches[m]]_vars

\* a match that was COMPLETED is SUGGESTED again, and the other match went
\* from SUGGESTED straight to COMPLETED
C22_Witness ==
  /\ result.op = "updateStatus"
  /\ result.outcome = "ok"
  /\ \E a, b \in Matches :
       /\ matches[a].status = "SUGGESTED"
       /\ matches[a].completedAt
       /\ matches[b].status = "COMPLETED"
       /\ ~matches[b].contactedAt
       /\ ~matches[b].negotiationStartedAt
       /\ ~matches[b].contractSignedAt

(***************************************************************************)
(* createOffer with its awaited database calls as separate steps, so that  *)
(* two requests interleave.                                                *)
(***************************************************************************)
\* negotiation.findUnique and the two checks that follow it
OfferRead(p, negotiationId, price, quantity, offeredBy) ==
  /\ ReceivedBy(p)
  /\ UNCHANGED rows
  /\ IF ~NegotiationExists(negotiationId)
     THEN /\ result' = Response("createOffer", negotiationId, "NotFound",
                                "Negotiation not found")
          /\ UNCHANGED <<pc, local>>
     ELSE IF ~IsActive(negotiations[negotiationId])
     THEN /\ result' = Response("createOffer", negotiationId, "BadRequest",
                                "Negotiation is not active")
          /\ UNCHANGED <<pc, local>>
     ELSE /\ local' = [local EXCEPT ![p] =
                         [id |-> negotiationId, price |-> price,
                          quantity |-> quantity, offeredBy |-> offeredBy]]
          /\ pc' = [pc EXCEPT ![p] = "updateTerms"]
          /\ UNCHANGED result

\* negotiation.update({ currentPrice, quantity, lastUpdatedBy }): the first
\* of the two writes
OfferUpdateNegotiation(p) ==
  /\ pc[p] = "updateTerms"
  /\ negotiations' = [negotiations EXCEPT ![local[p].id] =
                        OfferTerms(@, local[p].price, local[p].quantity,
                                   local[p].offeredBy)]
  /\ pc' = [pc EXCEPT ![p] = "createOffer"]
  /\ UNCHANGED <<matches, offers, transactions, result, calls, local, matching>>

\* offer.create and the return: the second write
OfferInsert(p) ==
  /\ pc[p] = "createOffer"
  /\ offers' = Append(offers, NewOffer(local[p].id, local[p].price,
                                       local[p].quantity, local[p].offeredBy))
  /\ result' = Response("createOffer", local[p].id, "ok", "")
  /\ pc' = [pc EXCEPT ![p] = "idle"]
  /\ local' = [local EXCEPT ![p] = NoLocal]
  /\ UNCHANGED <<matches, negotiations, transactions, calls, matching>>

DoOfferRead ==
  \E p \in Procs, negotiationId \in NegotiationIdInputs,
     dto \in OfferTermsInputs, offeredBy \in Users :
    OfferRead(p, negotiationId, dto.price, dto.quantity, offeredBy)
DoOfferUpdateNegotiation == \E p \in Procs : OfferUpdateNegotiation(p)
DoOfferInsert == \E p \in Procs : OfferInsert(p)

NextConcOffer ==
  \/ DoCreate
  \/ DoOfferRead
  \/ DoOfferUpdateNegotiation
  \/ DoOfferInsert

SpecConcOffer == Init /\ [][NextConcOffer]_vars

\* the offer of the negotiation that was inserted last
LastOfferOf(n) ==
  CHOOSE o \in OffersOfNegotiation(n) : \A other \in OffersOfNegotiation(n) : other <= o

\* C29: with createOffer requests interleaved on one ACTIVE negotiation, once
\* every request has completed the negotiation's currentPrice and quantity
\* are those of the offer that was inserted last.
C29_TermsOfLastInsertedOffer ==
  pc = Idle =>
    \A n \in 1..Len(negotiations) :
      OffersOfNegotiation(n) # {} =>
        /\ negotiations[n].currentPrice = offers[LastOfferOf(n)].price
        /\ negotiations[n].quantity = offers[LastOfferOf(n)].quantity

=============================================================================
